---- MODULE Spec2Model ----
(***************************************************************************)
(* TracingVec (src/src/tracing_vec.rs): an append-only arena `mem` of      *)
(* traces (val, birth) and a chain `snapshots` of orderings, each a list   *)
(* of arena positions.  Positions are 0-based as in the source; TLA+       *)
(* sequences are 1-based, so element i of a Vec v is v[i + 1].             *)
(***************************************************************************)
EXTENDS Integers, Sequences, FiniteSets, TLC

\* ------------------------------------------------------------------ bounds
MaxMem == 5
MaxVer == 3
MaxInit == 4
MaxBatch == 3

VARIABLES mem, snapshots, last, issued

vars == <<mem, snapshots, last, issued>>

\* ------------------------------------------------------------ Vec helpers
\* Vec::insert(i, x): panics when i > len; callers test InsertOk first.
VecInsert(v, i, x) ==
    SubSeq(v, 1, i) \o <<x>> \o SubSeq(v, i + 1, Len(v))

\* Vec::remove(i): panics when i >= len; callers test i < Len(v) first.
VecRemove(v, i) ==
    SubSeq(v, 1, i) \o SubSeq(v, i + 2, Len(v))

\* slice::contains
VecContains(v, x) ==
    \E i \in 1..Len(v) : v[i] = x

\* ------------------------------------------------------------ index types
Timed(pos, pseudotime) ==
    [kind |-> "Timed", pos |-> pos, pseudotime |-> pseudotime]

Timeless(pos) ==
    [kind |-> "Timeless", pos |-> pos]

Ok(v) ==
    [ok |-> TRUE, val |-> v]

Err(kind, index) ==
    [ok |-> FALSE, err |-> kind, index |-> index]

Trace(val, birth) ==
    [val |-> val, birth |-> birth]

\* ------------------------------------------------------------------ utils
pseudotime ==
    Len(snapshots) - 1

latest_snapshot ==
    snapshots[Len(snapshots)]

refs ==
    snapshots[Len(snapshots)]

val_location(index) ==
    IF index.pseudotime >= Len(snapshots)
    THEN Err("VersionDoesNotExist", index)
    ELSE IF index.pos >= Len(snapshots[index.pseudotime + 1])
         THEN Err("IndexOutOfBounds", index)
         ELSE Ok(snapshots[index.pseudotime + 1][index.pos + 1])

\* Variant of into_timeless: the arena bound tested with >= instead of >.
into_timeless_inclusive(index) ==
    IF index.kind = "Timed"
    THEN LET r == val_location(index)
         IN  IF r.ok THEN Ok(Timeless(r.val)) ELSE r
    ELSE IF Len(mem) >= index.pos
         THEN Ok(index)
         ELSE Err("DataDoesNotExist", index)

into_timeless(index) ==
    IF index.kind = "Timed"
    THEN LET r == val_location(index)
         IN  IF r.ok THEN Ok(Timeless(r.val)) ELSE r
    ELSE IF Len(mem) > index.pos
         THEN Ok(index)
         ELSE Err("DataDoesNotExist", index)

contains(index) ==
    into_timeless(index).ok

\* Variant of is_alive: the membership test made on snapshots.first().
is_alive_oldest(index) ==
    LET r == into_timeless(index)
    IN  IF r.ok
        THEN VecContains(snapshots[1], r.val.pos)
        ELSE FALSE

is_alive(index) ==
    LET r == into_timeless(index)
    IN  IF r.ok
        THEN VecContains(snapshots[Len(snapshots)], r.val.pos)
        ELSE FALSE

get(index) ==
    LET r == into_timeless(index)
    IN  IF r.ok THEN Ok(mem[r.val.pos + 1].val) ELSE r

\* Variant of latest_index: a dead entry reported with the error of an
\* entry that was never created.
latest_index_wrong_kind(index) ==
    LET r == into_timeless(index)
    IN  IF ~r.ok
        THEN r
        ELSE IF ~is_alive(r.val)
             THEN Err("DataDoesNotExist", r.val)
             ELSE LET hits == {i \in 1..Len(refs) : refs[i] = r.val.pos}
                  IN  Ok((CHOOSE i \in hits : \A j \in hits : i <= j) - 1)

latest_index(index) ==
    LET r == into_timeless(index)
    IN  IF ~r.ok
        THEN r
        ELSE IF ~is_alive(r.val)
             THEN Err("DataAlreadyDead", r.val)
             ELSE LET hits == {i \in 1..Len(refs) : refs[i] = r.val.pos}
                  IN  Ok((CHOOSE i \in hits : \A j \in hits : i <= j) - 1)

\* Variant of into_timed: the position taken from into_timeless, the arena
\* position, instead of from latest_index.
into_timed_arena(index) ==
    LET r == latest_index(index)
    IN  IF r.ok
        THEN Ok(Timed(into_timeless(index).val.pos, pseudotime))
        ELSE r

into_timed(index) ==
    LET r == latest_index(index)
    IN  IF r.ok THEN Ok(Timed(r.val, pseudotime)) ELSE r

is_before(before, after) ==
    LET b == latest_index(before)
        a == latest_index(after)
    IN  IF ~b.ok THEN b
        ELSE IF ~a.ok THEN a
        ELSE Ok(b.val <= a.val)

latest ==
    [i \in 1..Len(latest_snapshot) |-> mem[latest_snapshot[i] + 1].val]

oldest ==
    [i \in 1..Len(snapshots[1]) |-> mem[snapshots[1][i] + 1].val]

\* The loop of latest_mut over the latest ordering.  mem_mut holds <<a>> for
\* Some(&mut mem[a]) and <<>> for None.  mem_mut.remove(pos) panics on a
\* position that is not below the length, unwrap() panics on a slot that
\* was taken before.
RECURSIVE latest_mut_loop(_, _, _)
latest_mut_loop(positions, mem_mut, ret) ==
    IF positions = <<>>
    THEN [panic |-> FALSE, ret |-> ret]
    ELSE LET pos == Head(positions)
         IN  IF pos >= Len(mem_mut)
             THEN [panic |-> TRUE, ret |-> ret]
             ELSE IF mem_mut[pos + 1] = <<>>
             THEN [panic |-> TRUE, ret |-> ret]
             ELSE latest_mut_loop(Tail(positions),
                                  VecInsert(VecRemove(mem_mut, pos), pos, <<>>),
                                  Append(ret, mem_mut[pos + 1][1]))

\* latest_mut: the arena slots the returned mutable references point to,
\* in order, or a panic.
latest_mut ==
    latest_mut_loop(latest_snapshot, [a \in 1..Len(mem) |-> <<a - 1>>], <<>>)

\* Variant of new_snapshot: the latest ordering handed out for mutation
\* without a clone of it being appended first.
new_snapshot_shared ==
    snapshots

\* new_snapshot: the chain with a clone of the latest ordering appended.
new_snapshot ==
    Append(snapshots, snapshots[Len(snapshots)])

\* ------------------------------------------------------- batched removal
\* The loop of try_remove_all that resolves every index, first error wins.
RECURSIVE resolve_all(_, _)
resolve_all(indices, absolute_indices) ==
    IF indices = <<>>
    THEN Ok(absolute_indices)
    ELSE LET r == latest_index(Head(indices))
         IN  IF ~r.ok
             THEN [ok |-> FALSE, err |-> r, at |-> Len(absolute_indices) + 1]
             ELSE resolve_all(Tail(indices), Append(absolute_indices, r.val))

\* The loop that builds interleaved_positions: `for pos in last_pos .. abs`
\* pushes nothing when abs <= last_pos.
RECURSIVE interleave(_, _, _)
interleave(absolute_indices, last_pos, interleaved) ==
    IF absolute_indices = <<>>
    THEN interleaved
    ELSE LET abs == Head(absolute_indices)
             n   == IF abs > last_pos THEN abs - last_pos ELSE 0
             gap == [k \in 1..n |-> last_pos + k - 1]
         IN  interleave(Tail(absolute_indices), abs + 1, interleaved \o gap)

interleaved_positions(absolute_indices) ==
    interleave(absolute_indices, absolute_indices[1], <<absolute_indices[1]>>)

\* absolute_indices.sort_by(|a, b| a.1.cmp(&b.1)): a stable sort of the
\* pairs <<position, abs>> on abs.
RECURSIVE sort_by_abs(_)
sort_by_abs(pairs) ==
    IF pairs = <<>>
    THEN <<>>
    ELSE LET front  == sort_by_abs(SubSeq(pairs, 1, Len(pairs) - 1))
             p      == pairs[Len(pairs)]
             k      == Cardinality({i \in 1..Len(front) : front[i][2] <= p[2]})
         IN  VecInsert(front, k, p)

\* The removal loop, over the sorted pairs in reverse.  Vec::remove panics
\* on an index that is not below the length.  removed[i] is <<>> for None.
RECURSIVE remove_rev(_, _, _)
remove_rev(sorted, snapshot, removed) ==
    IF sorted = <<>>
    THEN [panic |-> FALSE, snapshot |-> snapshot, removed |-> removed]
    ELSE LET position == sorted[Len(sorted)][1]
             index    == sorted[Len(sorted)][2]
         IN  IF index >= Len(snapshot)
             THEN [panic |-> TRUE, snapshot |-> snapshot, removed |-> removed]
             ELSE remove_rev(SubSeq(sorted, 1, Len(sorted) - 1),
                             VecRemove(snapshot, index),
                             [removed EXCEPT ![position + 1] =
                                  <<Timeless(snapshot[index + 1])>>])

\* try_remove_all: an Err, or the chain with the new ordering after the
\* removals (as far as they got when one panicked), the anchor candidates
\* and the removed identifiers in caller order.
try_remove_all(indices) ==
    IF indices = <<>>
    THEN [ok |-> FALSE, err |-> Err("NoIndicesProvided", <<>>), at |-> 0]
    ELSE LET r == resolve_all(indices, <<>>)
         IN  IF ~r.ok
             THEN [ok |-> FALSE, err |-> r.err, at |-> r.at]
             ELSE LET absolute_indices == r.val
                      pairs  == [i \in 1..Len(absolute_indices) |->
                                    <<i - 1, absolute_indices[i]>>]
                      chain  == new_snapshot
                      loop   == remove_rev(sort_by_abs(pairs),
                                           chain[Len(chain)],
                                           [i \in 1..Len(pairs) |-> <<>>])
                  IN  [ok |-> TRUE,
                       panic |-> loop.panic,
                       chain |-> [chain EXCEPT ![Len(chain)] = loop.snapshot],
                       interleaved |-> interleaved_positions(absolute_indices),
                       removed |-> IF loop.panic
                                   THEN <<>>
                                   ELSE [i \in 1..Len(pairs) |-> loop.removed[i][1]]]

\* ----------------------------------------------------------------- inputs
\* Indices a caller may pass: every arena position of the largest arena,
\* every position of the longest ordering at every version of the longest
\* chain.  Which of them are valid depends on the state: a mutation runs
\* only on a chain that can still grow, where the last of these versions
\* does not exist yet.
TimelessIndices ==
    {Timeless(p) : p \in 0..(MaxMem - 1)}

TimedIndices ==
    {Timed(p, t) : p \in 0..(MaxMem - 1), t \in 0..(MaxVer - 1)}

Indices ==
    TimelessIndices \cup TimedIndices

\* Lists passed to the batched operations: identifiers of the entries an
\* initial vector can hold and the version-stable coordinate of the first
\* of them (which may name the entry of an identifier of the list a second
\* time), in every order.
BatchIndices ==
    {Timeless(p) : p \in 0..(MaxInit - 1)} \cup {Timed(0, 0)}

IndexLists ==
    UNION {{l \in [1..n -> BatchIndices] :
               \A i, j \in 1..n : i # j => l[i] # l[j]} : n \in 0..MaxBatch}

\* X is opaque: the code never inspects a value (the only bound is Clone).
\* A value is the list of tokens it was made from.  The n-th value a
\* caller hands in is the token <<n>>, so that all of them differ.
fresh ==
    <<Len(mem)>>

\* The closure f of replace_with: it merges the removed values, in the
\* order it is handed them.
RECURSIVE f(_)
f(removed) ==
    IF removed = <<>> THEN <<>> ELSE Head(removed) \o f(Tail(removed))

\* -------------------------------------------------------------- outcomes
\* What the last call was and what it returned.  args are the indices of
\* a call that went through or panicked; ret is the returned index or
\* indices as a list (empty for None and for unit); err is the IndexError
\* of a failing call, at the place in its list of the index it failed on
\* (0 for an empty list); res "panic" is an aborted call.
Outcome(op, args, res, err, at, ret) ==
    [op |-> op, args |-> args, res |-> res, err |-> err, at |-> at, ret |-> ret]

Running ==
    last.res # "panic"

\* History: every TimedIndex a call returned, with the arena position and
\* the value of the entry that call allocated.
Issued(pos, t, arena, val) ==
    [pos |-> pos, pseudotime |-> t, arena |-> arena, val |-> val]

\* ------------------------------------------------------------------ Init
\* from(Vec) over every vector of at most MaxInit values; new() is from(<<>>).
from(v) ==
    /\ mem = [i \in 1..Len(v) |-> Trace(v[i], 0)]
    /\ snapshots = <<[i \in 1..Len(v) |-> i - 1]>>

Init ==
    /\ \E n \in 0..MaxInit : from([i \in 1..n |-> <<i - 1>>])
    /\ last = Outcome("from", <<>>, "ok", <<>>, 0, <<>>)
    /\ issued = {}

\* --------------------------------------------------------------- actions
\* Variant of push: the position appended to a new_snapshot() instead of
\* latest_snapshot_mut().
push_versioned ==
    /\ Running
    /\ Len(mem) < MaxMem
    /\ Len(snapshots) < MaxVer
    /\ LET birth == pseudotime
           tracing_index == Len(mem)
           chain == Append(snapshots, snapshots[Len(snapshots)])
       IN  /\ mem' = Append(mem, Trace(fresh, birth))
           /\ snapshots' = [chain EXCEPT ![Len(chain)] =
                                Append(@, tracing_index)]
    /\ last' = Outcome("push", <<>>, "ok", <<>>, 0, <<>>)
    /\ UNCHANGED issued

\* Variant of push: last_obj_index read before mem.push instead of after
\* it, so that the pushed entry is referred to by its predecessor's position.
push_stale_index ==
    /\ Running
    /\ Len(mem) < MaxMem
    /\ LET birth == pseudotime
           tracing_index == IF Len(mem) = 0 THEN 0 ELSE Len(mem) - 1
       IN  /\ mem' = Append(mem, Trace(fresh, birth))
           /\ snapshots' = [snapshots EXCEPT ![Len(snapshots)] =
                                Append(@, tracing_index)]
    /\ last' = Outcome("push", <<>>, "ok", <<>>, 0, <<>>)
    /\ UNCHANGED issued

\* Variant of push: last_obj_index read as mem.len() instead of
\* mem.len() - 1.
push_past_end ==
    /\ Running
    /\ Len(mem) < MaxMem
    /\ LET birth == pseudotime
           tracing_index == Len(mem) + 1
       IN  /\ mem' = Append(mem, Trace(fresh, birth))
           /\ snapshots' = [snapshots EXCEPT ![Len(snapshots)] =
                                Append(@, tracing_index)]
    /\ last' = Outcome("push", <<>>, "ok", <<>>, 0, <<>>)
    /\ UNCHANGED issued

push ==
    /\ Running
    /\ Len(mem) < MaxMem
    /\ LET birth == pseudotime
           tracing_index == Len(mem)
       IN  /\ mem' = Append(mem, Trace(fresh, birth))
           /\ snapshots' = [snapshots EXCEPT ![Len(snapshots)] =
                                Append(@, tracing_index)]
    /\ last' = Outcome("push", <<>>, "ok", <<>>, 0, <<>>)
    /\ UNCHANGED issued

\* Variant of pop: an empty container answered with None before a new
\* snapshot is made.
pop_skip_empty ==
    /\ Running
    /\ Len(snapshots) < MaxVer
    /\ LET chain == new_snapshot
           snapshot == chain[Len(chain)]
       IN  IF snapshot = <<>>
           THEN /\ snapshots' = snapshots
                /\ last' = Outcome("pop", <<>>, "ok", <<>>, 0, <<>>)
           ELSE /\ snapshots' = [chain EXCEPT ![Len(chain)] =
                                     SubSeq(snapshot, 1, Len(snapshot) - 1)]
                /\ last' = Outcome("pop", <<>>, "ok", <<>>, 0,
                                   <<Timeless(snapshot[Len(snapshot)])>>)
    /\ UNCHANGED <<mem, issued>>

\* Variant of pop: the popped entry also taken off the arena when it is the
\* arena's last one.
pop_arena ==
    /\ Running
    /\ Len(snapshots) < MaxVer
    /\ LET chain == new_snapshot
           snapshot == chain[Len(chain)]
       IN  IF snapshot = <<>>
           THEN /\ snapshots' = chain
                /\ mem' = mem
                /\ last' = Outcome("pop", <<>>, "ok", <<>>, 0, <<>>)
           ELSE /\ snapshots' = [chain EXCEPT ![Len(chain)] =
                                     SubSeq(snapshot, 1, Len(snapshot) - 1)]
                /\ mem' = IF snapshot[Len(snapshot)] = Len(mem) - 1
                          THEN SubSeq(mem, 1, Len(mem) - 1)
                          ELSE mem
                /\ last' = Outcome("pop", <<>>, "ok", <<>>, 0,
                                   <<Timeless(snapshot[Len(snapshot)])>>)
    /\ UNCHANGED issued

\* Variant of pop: the first element of the ordering taken instead of the
\* last.
pop_front ==
    /\ Running
    /\ Len(snapshots) < MaxVer
    /\ LET chain == new_snapshot
           snapshot == chain[Len(chain)]
       IN  IF snapshot = <<>>
           THEN /\ snapshots' = chain
                /\ last' = Outcome("pop", <<>>, "ok", <<>>, 0, <<>>)
           ELSE /\ snapshots' = [chain EXCEPT ![Len(chain)] = Tail(snapshot)]
                /\ last' = Outcome("pop", <<>>, "ok", <<>>, 0,
                                   <<Timeless(snapshot[1])>>)
    /\ UNCHANGED <<mem, issued>>

pop ==
    /\ Running
    /\ Len(snapshots) < MaxVer
    /\ LET chain == new_snapshot
           snapshot == chain[Len(chain)]
       IN  IF snapshot = <<>>
           THEN /\ snapshots' = chain
                /\ last' = Outcome("pop", <<>>, "ok", <<>>, 0, <<>>)
           ELSE /\ snapshots' = [chain EXCEPT ![Len(chain)] =
                                     SubSeq(snapshot, 1, Len(snapshot) - 1)]
                /\ last' = Outcome("pop", <<>>, "ok", <<>>, 0,
                                   <<Timeless(snapshot[Len(snapshot)])>>)
    /\ UNCHANGED <<mem, issued>>

\* Variant of insert_birth: the birth read as in push, the version before
\* the one the call creates.
insert_birth_stale ==
    pseudotime

\* `let birth = self.pseudotime() + 1` of try_insert: the version that the
\* call is about to create.
insert_birth ==
    pseudotime + 1

\* try_insert: the caller's absolute_index is at most the ordering's length
\* (latest_index or latest_index + 1), so Vec::insert cannot panic.
try_insert(op, index, absolute_index) ==
    LET birth == insert_birth
        tracing_index == Len(mem)
        chain == new_snapshot
    IN  /\ mem' = Append(mem, Trace(fresh, birth))
        /\ snapshots' = [chain EXCEPT ![Len(chain)] =
                             VecInsert(@, absolute_index, tracing_index)]
        /\ last' = Outcome(op, <<index>>, "ok", <<>>, 0,
                           <<Timed(absolute_index, birth)>>)
        /\ issued' = issued \cup {Issued(absolute_index, birth,
                                          tracing_index, fresh)}

\* Variant of Fail: the error returned after new_snapshot() was called.
Fail_after_snapshot(op, err, at) ==
    /\ last' = Outcome(op, <<>>, "err", <<err>>, at, <<>>)
    /\ snapshots' = new_snapshot
    /\ UNCHANGED <<mem, issued>>

\* An early return through `?`: the error is handed to the caller.
Fail(op, err, at) ==
    /\ last' = Outcome(op, <<>>, "err", <<err>>, at, <<>>)
    /\ UNCHANGED <<mem, snapshots, issued>>

try_insert_before(index) ==
    /\ Running
    /\ Len(mem) < MaxMem
    /\ Len(snapshots) < MaxVer
    /\ \E r \in {latest_index(index)} :
           IF ~r.ok
           THEN Fail("try_insert_before", r, 1)
           ELSE try_insert("try_insert_before", index, r.val)

\* Variant of try_insert_after: the entry inserted at latest_index, as
\* try_insert_before does, instead of latest_index + 1.
try_insert_after_same(index) ==
    /\ Running
    /\ Len(mem) < MaxMem
    /\ Len(snapshots) < MaxVer
    /\ \E r \in {latest_index(index)} :
           IF ~r.ok
           THEN Fail("try_insert_after", r, 1)
           ELSE try_insert("try_insert_after", index, r.val)

try_insert_after(index) ==
    /\ Running
    /\ Len(mem) < MaxMem
    /\ Len(snapshots) < MaxVer
    /\ \E r \in {latest_index(index)} :
           IF ~r.ok
           THEN Fail("try_insert_after", r, 1)
           ELSE try_insert("try_insert_after", index, r.val + 1)

\* Variant of try_remove: the returned identifier made of the position in
\* the ordering instead of the arena position that Vec::remove gives back.
try_remove_returns_index(index) ==
    /\ Running
    /\ Len(snapshots) < MaxVer
    /\ \E r \in {latest_index(index)} :
           IF ~r.ok
           THEN Fail("try_remove", r, 1)
           ELSE LET chain == new_snapshot
                IN  /\ snapshots' = [chain EXCEPT ![Len(chain)] =
                                         VecRemove(@, r.val)]
                    /\ last' = Outcome("try_remove", <<index>>, "ok", <<>>, 0,
                                       <<Timeless(r.val)>>)
                    /\ UNCHANGED <<mem, issued>>

try_remove(index) ==
    /\ Running
    /\ Len(snapshots) < MaxVer
    /\ \E r \in {latest_index(index)} :
           IF ~r.ok
           THEN Fail("try_remove", r, 1)
           ELSE LET chain == new_snapshot
                    pos == chain[Len(chain)][r.val + 1]
                IN  /\ snapshots' = [chain EXCEPT ![Len(chain)] =
                                         VecRemove(@, r.val)]
                    /\ last' = Outcome("try_remove", <<index>>, "ok", <<>>, 0,
                                       <<Timeless(pos)>>)
                    /\ UNCHANGED <<mem, issued>>

\* A call that panics leaves the structure as it was when the panic was
\* raised and ends the run.
Panic(op, args, mem_then, snapshots_then) ==
    /\ mem' = mem_then
    /\ snapshots' = snapshots_then
    /\ last' = Outcome(op, args, "panic", <<>>, 0, <<>>)
    /\ UNCHANGED issued

\* Variant of first: the last anchor candidate taken, as
\* try_replace_at_last_with does.
first_as_last(indices) ==
    indices[Len(indices)]

\* indices.first().unwrap() of try_replace.
first(indices) ==
    indices[1]

\* The two closures passed as `choose`.
choose_first(interleaved) ==
    interleaved[1]

choose_last(interleaved) ==
    interleaved[Len(interleaved)]

try_replace(indices) ==
    /\ Running
    /\ Len(mem) < MaxMem
    /\ Len(snapshots) < MaxVer
    /\ \E r \in {try_remove_all(indices)} :
           IF ~r.ok
           THEN Fail("try_replace", r.err, r.at)
           ELSE LET chain == r.chain
                    birth == Len(chain) - 1
                    tracing_index == Len(mem)
                    pushed == Append(mem, Trace(fresh, birth))
                    anchor == first(r.interleaved)
                IN  IF r.panic
                    THEN Panic("try_replace", indices, mem, chain)
                    ELSE IF anchor > Len(chain[Len(chain)])
                    THEN Panic("try_replace", indices, pushed, chain)
                    ELSE /\ mem' = pushed
                         /\ snapshots' = [chain EXCEPT ![Len(chain)] =
                                              VecInsert(@, anchor, tracing_index)]
                         /\ last' = Outcome("try_replace", indices, "ok", <<>>, 0,
                                            r.removed)
                         /\ UNCHANGED issued

try_replace_choose(op, indices) ==
    /\ \E r \in {try_remove_all(indices)} :
           IF ~r.ok
           THEN Fail(op, r.err, r.at)
           ELSE IF r.panic
           THEN Panic(op, indices, mem, r.chain)
           ELSE LET chain == r.chain
                    chosen == IF op = "try_replace_with"
                              THEN choose_first(r.interleaved)
                              ELSE choose_last(r.interleaved)
                    removed == [i \in 1..Len(r.removed) |-> get(r.removed[i]).val]
                    val == f(removed)
                    birth == Len(chain) - 1
                    tracing_index == Len(mem)
                    pushed == Append(mem, Trace(val, birth))
                IN  IF chosen > Len(chain[Len(chain)])
                    THEN Panic(op, indices, pushed, chain)
                    ELSE /\ mem' = pushed
                         /\ snapshots' = [chain EXCEPT ![Len(chain)] =
                                              VecInsert(@, chosen, tracing_index)]
                         /\ last' = Outcome(op, indices, "ok", <<>>, 0,
                                            <<Timed(chosen, birth)>>)
                         /\ issued' = issued \cup {Issued(chosen, birth,
                                                           tracing_index, val)}

try_replace_with(indices) ==
    /\ Running
    /\ Len(mem) < MaxMem
    /\ Len(snapshots) < MaxVer
    /\ try_replace_choose("try_replace_with", indices)

try_replace_at_last_with(indices) ==
    /\ Running
    /\ Len(mem) < MaxMem
    /\ Len(snapshots) < MaxVer
    /\ try_replace_choose("try_replace_at_last_with", indices)

\* ------------------------------------------------------------------ Next
Next ==
    \/ push
    \/ pop
    \/ \E index \in Indices : try_insert_before(index)
    \/ \E index \in Indices : try_insert_after(index)
    \/ \E index \in Indices : try_remove(index)
    \/ \E indices \in IndexLists : try_replace(indices)
    \/ \E indices \in IndexLists : try_replace_with(indices)
    \/ \E indices \in IndexLists : try_replace_at_last_with(indices)

Spec ==
    Init /\ [][Next]_vars

\* ================================================================ claims
\* Every index a property quantifies over: each kind, valid and invalid
\* (one position past the largest arena, one version past the longest chain).
ProbeIndices ==
    {Timeless(p) : p \in 0..MaxMem}
        \cup {Timed(p, t) : p \in 0..MaxMem, t \in 0..MaxVer}

\* The arena positions of an ordering, as a set.
Range(v) ==
    {v[i] : i \in 1..Len(v)}

InsertOps ==
    {"try_insert_before", "try_insert_after"}

BatchOps ==
    {"try_replace", "try_replace_with", "try_replace_at_last_with"}

\* C1: every version-stable coordinate (pos, pseudotime) that
\* insert_before, insert_after, try_replace_with or try_replace_at_last_with
\* has returned resolves, at once and after any later operations, through
\* into_timeless to the arena entry that the returning call allocated, and
\* get on it yields the value that call stored.
C1_IssuedCoordinateKeepsItsEntry ==
    \A c \in issued :
        /\ into_timeless(Timed(c.pos, c.pseudotime)) = Ok(Timeless(c.arena))
        /\ snapshots[c.pseudotime + 1][c.pos + 1] = c.arena
        /\ get(Timed(c.pos, c.pseudotime)) = Ok(c.val)
        /\ mem[c.arena + 1].birth = c.pseudotime

\* C1 witness: a coordinate issued at an earlier version whose entry has
\* since left the latest ordering.
C1_Witness ==
    /\ \E c \in issued :
           /\ c.pseudotime < pseudotime
           /\ ~is_alive(Timeless(c.arena))
    /\ last.res = "ok"

\* C2: no operation changes what a valid coordinate resolves to: every
\* entry of every ordering of the chain keeps its place and its content,
\* every ordering but the latest is unchanged, and the latest one changes
\* only by a push appending at its end.
C2_ResolutionIsStable ==
    [][/\ \A c \in ProbeIndices :
              into_timeless(c).ok => into_timeless(c)' = into_timeless(c)
       /\ Len(snapshots') >= Len(snapshots)
       /\ \A t \in 1..(Len(snapshots) - 1) : snapshots'[t] = snapshots[t]
       /\ \/ snapshots'[Len(snapshots)] = snapshots[Len(snapshots)]
          \/ /\ last'.op = "push"
             /\ SubSeq(snapshots'[Len(snapshots)], 1, Len(latest_snapshot))
                    = latest_snapshot]_vars

\* C2 witness: two versions were created after entries were laid down, and
\* the three orderings differ from one another.
C2_Witness ==
    /\ Len(snapshots) = 3
    /\ snapshots[1] # <<>>
    /\ snapshots[1] # snapshots[2]
    /\ snapshots[2] # snapshots[3]
    /\ last.res = "ok"

\* C3: is_alive(c) holds exactly when c is a valid coordinate (its version
\* and position exist, or its arena position exists) and the arena position
\* it names occurs in the latest ordering, and it is false for an invalid
\* coordinate; and an arena position that exists and is absent from the
\* latest ordering is absent from it, and not alive, after every step.
C3_AliveIffInLatestAndNeverRegained ==
    /\ [](\A c \in ProbeIndices :
              is_alive(c) <=>
                  IF c.kind = "Timed"
                  THEN /\ c.pseudotime < Len(snapshots)
                       /\ c.pos < Len(snapshots[c.pseudotime + 1])
                       /\ snapshots[c.pseudotime + 1][c.pos + 1]
                              \in Range(snapshots[Len(snapshots)])
                  ELSE /\ c.pos < Len(mem)
                       /\ c.pos \in Range(snapshots[Len(snapshots)]))
    /\ [][\A a \in 0..(Len(mem) - 1) :
              ~is_alive(Timeless(a)) =>
                  /\ ~is_alive(Timeless(a))'
                  /\ a \notin Range(snapshots'[Len(snapshots')])]_vars

\* C3 witness: an entry was removed and a later version was created over it
\* by an operation that put a new entry into the ordering.
C3_Witness ==
    /\ Len(snapshots) = 3
    /\ \E a \in 0..(Len(mem) - 1) :
           /\ a \in Range(snapshots[1])
           /\ a \notin Range(snapshots[2])
           /\ ~is_alive(Timeless(a))
    /\ Len(snapshots[3]) > Len(snapshots[2])

\* C4: push creates no version: the chain keeps its length, every ordering
\* but the latest is unchanged, the arena gains one entry at its old length
\* with birth the current pseudotime, the latest ordering is the old one
\* with that position appended, and latest() is the old latest() with the
\* pushed value appended; so while the pseudotime is 0 the latest ordering
\* lists the arena in push order.
C4_PushCreatesNoVersion ==
    /\ [][last'.op = "push" =>
              /\ Len(snapshots') = Len(snapshots)
              /\ \A t \in 1..(Len(snapshots) - 1) : snapshots'[t] = snapshots[t]
              /\ Len(mem') = Len(mem) + 1
              /\ SubSeq(mem', 1, Len(mem)) = mem
              /\ mem'[Len(mem')].birth = pseudotime
              /\ snapshots'[Len(snapshots)] = Append(latest_snapshot, Len(mem))
              /\ latest' = Append(latest, mem'[Len(mem')].val)
              /\ pseudotime' = pseudotime]_vars
    /\ [](pseudotime = 0 =>
              /\ latest_snapshot = [i \in 1..Len(mem) |-> i - 1]
              /\ latest = [i \in 1..Len(mem) |-> mem[i].val])

\* C4 witness: a push onto a chain of three versions whose first ordering
\* holds several entries; the pushed entry is born at pseudotime 2.
C4_Witness ==
    /\ last.op = "push"
    /\ pseudotime = 2
    /\ Len(snapshots[1]) >= 2
    /\ Len(latest_snapshot) >= 2
    /\ mem[Len(mem)].birth = 2

VersionOps ==
    {"pop", "try_remove"} \cup InsertOps \cup BatchOps

\* C5: the chain never gets shorter, and every pop (also on an empty
\* container) and every successful insert_before, insert_after, remove,
\* replace, replace_with and replace_at_last_with appends exactly one
\* ordering to it, whatever the number of entries a batched call removes;
\* a push and a failing call append none.
C5_OneVersionPerMutation ==
    [][/\ pseudotime' >= pseudotime
       /\ (last'.res = "ok" /\ last'.op \in VersionOps) =>
              /\ pseudotime' = pseudotime + 1
              /\ SubSeq(snapshots', 1, Len(snapshots)) = snapshots
       /\ (last'.res = "err" \/ last'.op = "push") =>
              pseudotime' = pseudotime]_vars

\* C5 witness: a batched call that removed three entries and inserted one
\* made a single version.
C5_Witness ==
    /\ last.op = "try_replace_with"
    /\ last.res = "ok"
    /\ Len(last.args) = 3
    /\ pseudotime = 1
    /\ Len(snapshots[2]) + 2 = Len(snapshots[1])

\* C6: a failing try_insert_before, try_insert_after, try_remove,
\* try_replace, try_replace_with or try_replace_at_last_with leaves the
\* arena and the whole chain as they were.  It fails exactly when its list
\* is empty (NoIndicesProvided) or one of its indices has no live current
\* position, with the error of the first such index, at whatever place of
\* the list that index stands.
C6_FailingMutationsAreAtomic ==
    [][/\ last'.res = "err" =>
              /\ mem' = mem
              /\ snapshots' = snapshots
              /\ issued' = issued
              /\ last'.op \in VersionOps \ {"pop"}
              /\ IF last'.at = 0
                 THEN /\ last'.err = <<Err("NoIndicesProvided", <<>>)>>
                      /\ last'.op \in BatchOps
                 ELSE /\ latest_index(last'.err[1].index) = last'.err[1]
                      /\ ~last'.err[1].ok
       /\ (last'.res # "err" /\ last'.op \in VersionOps \ {"pop"}) =>
              /\ last'.args # <<>>
              /\ \A i \in 1..Len(last'.args) : latest_index(last'.args[i]).ok]_vars

\* C6 witness: a batched call failed on the third index of its list, after
\* two indices that resolved, on a structure that has a history.
C6_Witness ==
    /\ last.res = "err"
    /\ last.op \in BatchOps
    /\ last.at = 3
    /\ pseudotime >= 1
    /\ Len(latest_snapshot) >= 2

\* An index that names an existing entry that is not in the latest ordering.
DeadRef(c) ==
    /\ into_timeless(c).ok
    /\ into_timeless(c).val.pos \notin Range(latest_snapshot)

DataAlreadyDead(c) ==
    Err("DataAlreadyDead", into_timeless(c).val)

\* C7: for every index c, of either kind, that names an entry which is no
\* longer in the latest ordering: latest_index, into_timed and is_before
\* (with c on either side of a live index, or before any index) fail with
\* DataAlreadyDead of that entry, try_insert_before, try_insert_after,
\* try_remove and try_replace called with c fail with it and change nothing,
\* and get(c) still returns the value of the entry.
C7_DeadEntryFailsButGetSucceeds ==
    /\ [](\A c \in ProbeIndices : DeadRef(c) =>
              /\ latest_index(c) = DataAlreadyDead(c)
              /\ into_timed(c) = DataAlreadyDead(c)
              /\ \A d \in ProbeIndices :
                     /\ is_before(c, d) = DataAlreadyDead(c)
                     /\ latest_index(d).ok => is_before(d, c) = DataAlreadyDead(c)
              /\ get(c) = Ok(mem[into_timeless(c).val.pos + 1].val)
              /\ get(into_timeless(c).val) = get(c))
    /\ [][\A c \in Indices : DeadRef(c) =>
              /\ (last'.op = "try_insert_before" /\ try_insert_before(c)) =>
                     (last'.err = <<DataAlreadyDead(c)>> /\ UNCHANGED <<mem, snapshots>>)
              /\ (last'.op = "try_insert_after" /\ try_insert_after(c)) =>
                     (last'.err = <<DataAlreadyDead(c)>> /\ UNCHANGED <<mem, snapshots>>)
              /\ (last'.op = "try_remove" /\ try_remove(c)) =>
                     (last'.err = <<DataAlreadyDead(c)>> /\ UNCHANGED <<mem, snapshots>>)
              /\ (last'.op = "try_replace" /\ try_replace(<<c>>)) =>
                     (last'.err = <<DataAlreadyDead(c)>> /\ UNCHANGED <<mem, snapshots>>)]_vars

\* C7 witness: a call failed with DataAlreadyDead on an entry that version 0
\* held, and a version-stable coordinate of version 0 still names it.
C7_Witness ==
    /\ last.res = "err"
    /\ last.err[1].err = "DataAlreadyDead"
    /\ \E p \in 0..(Len(snapshots[1]) - 1) :
           /\ DeadRef(Timed(p, 0))
           /\ last.err[1] = DataAlreadyDead(Timed(p, 0))
           /\ get(Timed(p, 0)) = Ok(<<snapshots[1][p + 1]>>)

\* C8: into_timeless of a version-stable coordinate (pos, t) is
\* VersionDoesNotExist exactly when t is no recorded version, is
\* IndexOutOfBounds exactly when t is recorded and pos is not below the
\* length of that version's ordering, and is otherwise the arena position
\* snapshots[t][pos]; of a content-stable identifier it is DataDoesNotExist
\* exactly when the position is not below the arena's length and otherwise
\* the identifier itself; contains(c) holds exactly when it succeeds.
C8_IntoTimelessClassifies ==
    \A c \in ProbeIndices :
        /\ contains(c) <=> into_timeless(c).ok
        /\ IF c.kind = "Timed"
           THEN /\ into_timeless(c) = Err("VersionDoesNotExist", c)
                       <=> c.pseudotime >= Len(snapshots)
                /\ into_timeless(c) = Err("IndexOutOfBounds", c)
                       <=> /\ c.pseudotime < Len(snapshots)
                           /\ c.pos >= Len(snapshots[c.pseudotime + 1])
                /\ (/\ c.pseudotime < Len(snapshots)
                    /\ c.pos < Len(snapshots[c.pseudotime + 1]))
                       => into_timeless(c) =
                              Ok(Timeless(snapshots[c.pseudotime + 1][c.pos + 1]))
           ELSE /\ into_timeless(c) = Err("DataDoesNotExist", c)
                       <=> c.pos >= Len(mem)
                /\ c.pos < Len(mem) => into_timeless(c) = Ok(c)

\* C8 witness: one state in which all five outcomes occur: a missing
\* version, a position past an existing ordering, a resolved coordinate
\* whose arena position differs from its position, a missing and an
\* existing arena position.
C8_Witness ==
    /\ \E c \in ProbeIndices : into_timeless(c) = Err("VersionDoesNotExist", c)
    /\ \E c \in ProbeIndices : into_timeless(c) = Err("IndexOutOfBounds", c)
    /\ \E c \in ProbeIndices : into_timeless(c) = Err("DataDoesNotExist", c)
    /\ \E c \in ProbeIndices :
           /\ c.kind = "Timed"
           /\ into_timeless(c).ok
           /\ into_timeless(c).val.pos # c.pos
    /\ \E c \in ProbeIndices : c.kind = "Timeless" /\ into_timeless(c) = Ok(c)
    /\ pseudotime >= 1

\* The entries of an ordering that are not among `named`, in their order.
Without(v, named) ==
    LET Keep(a) == a \notin named
    IN  SelectSeq(v, Keep)

\* C9: a batched replace (try_replace, try_replace_with,
\* try_replace_at_last_with) whose indices all resolve to live entries, in
\* any order and also when two of them name the same entry, returns Ok and
\* removes exactly the named entries: try_replace returns, in the caller's
\* order, the arena positions the indices normalize to; afterwards each of
\* them is not alive; every other entry that was alive is still alive, and
\* the survivors keep their relative order.
C9_BatchedReplaceRemovesExactlyTheNamed ==
    [][(last'.op \in BatchOps /\ last'.res # "err") =>
           LET cs     == last'.args
               ids    == [i \in 1..Len(cs) |-> into_timeless(cs[i]).val]
               named  == {ids[i].pos : i \in 1..Len(cs)}
               before == latest_snapshot
               after  == snapshots'[Len(snapshots')]
           IN  /\ last'.res = "ok"
               /\ last'.op = "try_replace" => last'.ret = ids
               /\ \A a \in named : ~is_alive(Timeless(a))'
               /\ \A a \in Range(before) \ named : is_alive(Timeless(a))'
               /\ Without(after, {Len(mem)}) = Without(before, named)]_vars

\* The indices of a list resolve to strictly ascending current positions.
Ascending(cs) ==
    /\ \A i \in 1..Len(cs) : latest_index(cs[i]).ok
    /\ \A i, j \in 1..Len(cs) :
           i < j => latest_index(cs[i]).val < latest_index(cs[j]).val

\* C10: try_replace and try_replace_with called with indices of distinct
\* live entries in ascending current-position order return Ok; the new
\* latest ordering is the old one with the listed entries deleted and the
\* new arena position inserted at the first resolved position p0, which is
\* at most the length left after the removals; the entries before p0 are
\* untouched, the new entry is at p0, directly before the first surviving
\* entry that followed the first removed one, and it is alive.
C10_ReplaceInsertsAtFirstPosition ==
    [][(/\ last'.op \in {"try_replace", "try_replace_with"}
        /\ last'.res # "err"
        /\ Ascending(last'.args)) =>
           LET cs     == last'.args
               abs    == [i \in 1..Len(cs) |-> latest_index(cs[i]).val]
               before == latest_snapshot
               named  == {before[abs[i] + 1] : i \in 1..Len(cs)}
               rest   == Without(before, named)
               p0     == abs[1]
               new    == Len(mem)
               after  == snapshots'[Len(snapshots')]
               later  == {q \in (p0 + 2)..Len(before) : before[q] \notin named}
           IN  /\ last'.res = "ok"
               /\ p0 <= Len(rest)
               /\ Len(mem') = Len(mem) + 1
               /\ after = VecInsert(rest, p0, new)
               /\ SubSeq(after, 1, p0) = SubSeq(before, 1, p0)
               /\ after[p0 + 1] = new
               /\ later # {} =>
                      after[p0 + 2] =
                          before[CHOOSE q \in later : \A r \in later : q <= r]
               /\ later = {} => Len(after) = p0 + 1
               /\ \A a \in {new} : is_alive(Timeless(a))'
               /\ Len(last'.ret) >= 1]_vars

\* C10 witness: a replace of two entries with an unlisted live entry
\* between them and entries before and after them; the new entry stands
\* where the first removed one stood, directly before the unlisted one.
C10_Witness ==
    /\ last.op = "try_replace"
    /\ last.res = "ok"
    /\ Len(last.ret) = 2
    /\ pseudotime >= 1
    /\ LET before == snapshots[Len(snapshots) - 1]
       IN  /\ Len(before) >= 4
           /\ before[2] = last.ret[1].pos
           /\ before[4] = last.ret[2].pos
           /\ latest_snapshot = <<before[1], Len(mem) - 1, before[3]>>
                                    \o SubSeq(before, 5, Len(before))

\* C11: is_before(a, b) of two indices that resolve to live entries is
\* Ok(TRUE) exactly when the current position of a's entry is less than the
\* current position of b's entry, whatever their arena positions, births and
\* versions; if an index has no current position, the result is the error
\* of the first such index.
C11_IsBeforeIsStrictCurrentOrder ==
    \A a, b \in ProbeIndices :
        IF ~latest_index(a).ok
        THEN is_before(a, b) = latest_index(a)
        ELSE IF ~latest_index(b).ok
        THEN is_before(a, b) = latest_index(b)
        ELSE is_before(a, b) = Ok(latest_index(a).val < latest_index(b).val)

\* C12: into_timed(c) succeeds exactly when is_alive(c); its result is then
\* (p, current pseudotime) with p the one place of the latest ordering that
\* holds c's arena position, so into_timeless of the result is
\* into_timeless(c), and a coordinate of the current pseudotime is returned
\* as it is.
C12_IntoTimedReissues ==
    \A c \in ProbeIndices :
        /\ into_timed(c).ok <=> is_alive(c)
        /\ into_timed(c).ok =>
               LET r == into_timed(c).val
                   a == into_timeless(c).val.pos
               IN  /\ r.kind = "Timed"
                   /\ r.pseudotime = pseudotime
                   /\ r.pos < Len(latest_snapshot)
                   /\ \A i \in 1..Len(latest_snapshot) :
                          latest_snapshot[i] = a <=> i = r.pos + 1
                   /\ into_timeless(r) = into_timeless(c)
                   /\ (c.kind = "Timed" /\ c.pseudotime = pseudotime) => r = c
        /\ ~into_timed(c).ok => into_timed(c) = latest_index(c)

\* C12 witness: a coordinate of an earlier version whose entry is alive at
\* another place of the latest ordering, and whose arena position differs
\* from that place; beside it a coordinate of a dead entry.
C12_Witness ==
    /\ \E c \in ProbeIndices :
           /\ c.kind = "Timed"
           /\ c.pseudotime < pseudotime
           /\ into_timed(c).ok
           /\ into_timed(c).val.pos # c.pos
           /\ into_timed(c).val.pos # into_timeless(c).val.pos
    /\ \E c \in ProbeIndices : DeadRef(c)

\* C13: the arena is append-only: no step shortens it or changes an entry
\* or a birth it holds, a step adds at most one entry at its end; push and
\* every successful insert_before, insert_after, try_replace,
\* try_replace_with and try_replace_at_last_with add exactly one; pop,
\* try_remove and every call that returns an error add none.
C13_ArenaIsAppendOnly ==
    [][/\ Len(mem') >= Len(mem)
       /\ Len(mem') <= Len(mem) + 1
       /\ SubSeq(mem', 1, Len(mem)) = mem
       /\ \A a \in 0..(Len(mem) - 1) :
              /\ mem'[a + 1].val = mem[a + 1].val
              /\ mem'[a + 1].birth = mem[a + 1].birth
       /\ (\/ last'.op = "push"
           \/ /\ last'.op \in InsertOps \cup BatchOps
              /\ last'.res = "ok")
              => Len(mem') = Len(mem) + 1
       /\ (\/ last'.op \in {"pop", "try_remove"}
           \/ last'.res = "err")
              => mem' = mem]_vars

\* C13 witness: a call has returned an error while the arena holds an entry
\* born at a later version than the first and an entry that is dead.
C13_Witness ==
    /\ last.res = "err"
    /\ \E a \in 0..(Len(mem) - 1) : mem[a + 1].birth >= 1
    /\ \E a \in 0..(Len(mem) - 1) : ~is_alive(Timeless(a))

\* C14: the chain is never empty and every element of every ordering is an
\* arena position below the arena's length, so latest(), oldest() and get
\* on every index that into_timeless accepts read inside the arena.
C14_OrderingsHoldValidArenaPositions ==
    /\ Len(snapshots) >= 1
    /\ \A t \in 1..Len(snapshots) :
           \A i \in 1..Len(snapshots[t]) :
               snapshots[t][i] \in 0..(Len(mem) - 1)
    /\ \A i \in 1..Len(latest_snapshot) :
           latest[i] = mem[latest_snapshot[i] + 1].val
    /\ \A i \in 1..Len(snapshots[1]) :
           oldest[i] = mem[snapshots[1][i] + 1].val
    /\ \A c \in ProbeIndices :
           into_timeless(c).ok =>
               /\ into_timeless(c).val.pos \in 0..(Len(mem) - 1)
               /\ get(c) = Ok(mem[into_timeless(c).val.pos + 1].val)

\* C14 witness: a chain of three orderings over an arena that is full, the
\* latest ordering holding an entry created after the first version.
C14_Witness ==
    /\ Len(snapshots) = MaxVer
    /\ Len(mem) = MaxMem
    /\ \E i \in 1..Len(latest_snapshot) :
           mem[latest_snapshot[i] + 1].birth >= 1
    /\ snapshots[1] # <<>>

\* C15: try_replace_at_last_with called with a non-empty list of indices of
\* distinct live entries in ascending current-position order returns Ok and
\* does not panic: the last anchor candidate is at most the length of the
\* ordering left after the removals, the new ordering is that ordering with
\* the new arena position inserted there, and the returned coordinate
\* resolves to the merged value.
C15_LastAnchorIsValidInsertionIndex ==
    [][(/\ last'.op = "try_replace_at_last_with"
        /\ last'.res # "err"
        /\ last'.args # <<>>
        /\ Ascending(last'.args)) =>
           LET cs     == last'.args
               abs    == [i \in 1..Len(cs) |-> latest_index(cs[i]).val]
               before == latest_snapshot
               named  == {before[abs[i] + 1] : i \in 1..Len(cs)}
               rest   == Without(before, named)
               anchor == choose_last(interleaved_positions(abs))
               new    == Len(mem)
               merged == f([i \in 1..Len(cs) |-> get(cs[i]).val])
               after  == snapshots'[Len(snapshots')]
           IN  /\ anchor <= Len(rest)
               /\ last'.res = "ok"
               /\ after = VecInsert(rest, anchor, new)
               /\ last'.ret = <<Timed(anchor, pseudotime + 1)>>
               /\ \A c \in {last'.ret[1]} : get(c)' = Ok(merged)]_vars

\* C16: try_insert_before(c, v) on an index c whose entry is alive at
\* current position p appends an ordering that is the old latest one with
\* the new arena position inserted at p, directly before c's entry;
\* try_insert_after(c, v) inserts it at p + 1, directly after c's entry,
\* also when that entry is the last.  The old entries keep their order, the
\* chain before the call is unchanged, the new entry's birth is the new
\* pseudotime, and the result is (p, new pseudotime), respectively
\* (p + 1, new pseudotime).
C16_InsertPlacesBesideTheEntry ==
    [][(last'.op \in InsertOps /\ last'.res = "ok") =>
           LET c      == last'.args[1]
               p      == latest_index(c).val
               at     == IF last'.op = "try_insert_before" THEN p ELSE p + 1
               before == latest_snapshot
               new    == Len(mem)
               after  == snapshots'[Len(snapshots')]
           IN  /\ latest_index(c).ok
               /\ before[p + 1] = into_timeless(c).val.pos
               /\ Len(snapshots') = Len(snapshots) + 1
               /\ SubSeq(snapshots', 1, Len(snapshots)) = snapshots
               /\ after = VecInsert(before, at, new)
               /\ Len(after) = Len(before) + 1
               /\ after[at + 1] = new
               /\ last'.op = "try_insert_before" =>
                      after[p + 2] = before[p + 1]
               /\ last'.op = "try_insert_after" =>
                      after[p + 1] = before[p + 1]
               /\ Without(after, {new}) = before
               /\ Len(mem') = Len(mem) + 1
               /\ mem'[new + 1].birth = Len(snapshots') - 1
               /\ last'.ret = <<Timed(at, pseudotime + 1)>>]_vars

\* C16 witness: try_insert_after on a coordinate of the first version whose
\* entry has moved since and is the last of the ordering; the new entry was
\* put at the very end.
C16_Witness ==
    /\ last.op = "try_insert_after"
    /\ last.res = "ok"
    /\ pseudotime = 2
    /\ last.args[1].kind = "Timed"
    /\ last.args[1].pseudotime = 0
    /\ last.ret[1].pos = Len(latest_snapshot) - 1
    /\ last.args[1].pos # last.ret[1].pos - 1
    /\ Len(latest_snapshot) >= 2

\* C17: try_remove(c) on an index c, of either kind and of any version,
\* whose entry has arena position a and is alive at current position p
\* returns the identifier a and appends one ordering, the old latest one
\* with place p deleted; the arena and the chain before the call are
\* unchanged, every version-stable coordinate that resolved to a still
\* does, and a is not alive afterwards.
C17_RemoveDeletesThePlace ==
    [][(last'.op = "try_remove" /\ last'.res = "ok") =>
           LET c == last'.args[1]
               a == into_timeless(c).val.pos
               p == latest_index(c).val
           IN  /\ latest_index(c).ok
               /\ latest_snapshot[p + 1] = a
               /\ last'.ret = <<Timeless(a)>>
               /\ snapshots' = Append(snapshots, VecRemove(latest_snapshot, p))
               /\ mem' = mem
               /\ \A x \in {a} :
                      /\ \A d \in ProbeIndices :
                             (d.kind = "Timed"
                                  /\ into_timeless(d) = Ok(Timeless(x)))
                                 => into_timeless(d)' = Ok(Timeless(x))
                      /\ ~is_alive(Timeless(x))'
                      /\ get(Timeless(x))' = get(Timeless(x))]_vars

\* C17 witness: a removal through a coordinate of the first version whose
\* entry had moved to another place of the ordering by the time of the
\* call; the coordinate still resolves to the entry, which is dead.
C17_Witness ==
    /\ last.op = "try_remove"
    /\ last.res = "ok"
    /\ pseudotime = 2
    /\ \E c \in {last.args[1]} :
           /\ c.kind = "Timed"
           /\ c.pseudotime = 0
           /\ into_timeless(c) = Ok(last.ret[1])
           /\ \E i \in 1..Len(snapshots[2]) :
                  /\ snapshots[2][i] = last.ret[1].pos
                  /\ i # c.pos + 1
           /\ ~is_alive(c)
    /\ latest_snapshot # <<>>

\* C18: pop always appends an ordering: the old latest one without its last
\* element, whose arena position pop returns, or the empty ordering when
\* the old one was empty, and then pop returns none; the pseudotime grows
\* by one in both cases, the arena and the chain before the call are
\* unchanged.
C18_PopAlwaysAppendsAnOrdering ==
    [][last'.op = "pop" =>
           LET before == latest_snapshot
               n      == Len(before)
           IN  /\ last'.res = "ok"
               /\ Len(snapshots') - 1 = pseudotime + 1
               /\ SubSeq(snapshots', 1, Len(snapshots)) = snapshots
               /\ mem' = mem
               /\ n = 0 =>
                      /\ snapshots'[Len(snapshots')] = <<>>
                      /\ last'.ret = <<>>
               /\ n > 0 =>
                      /\ snapshots'[Len(snapshots')] = SubSeq(before, 1, n - 1)
                      /\ last'.ret = <<Timeless(before[n])>>]_vars

\* C18 witness: a pop on an empty container, after a pop that took the last
\* of the entries the container held.
C18_Witness ==
    /\ last.op = "pop"
    /\ last.ret = <<>>
    /\ Len(snapshots) = 3
    /\ Len(snapshots[1]) >= 1
    /\ snapshots[2] = <<>>
    /\ snapshots[3] = <<>>
    /\ Len(mem) >= 1

\* C19: no ordering of the chain holds an arena position twice; hence the
\* scan of latest_index finds exactly one place for every live entry, and
\* latest_mut takes every arena slot at most once: it does not panic and
\* hands out one reference per element of the latest ordering, in order.
C19_NoOrderingRepeatsAnArenaPosition ==
    /\ \A t \in 1..Len(snapshots) :
           \A i, j \in 1..Len(snapshots[t]) :
               i # j => snapshots[t][i] # snapshots[t][j]
    /\ \A c \in ProbeIndices :
           latest_index(c).ok =>
               {i \in 1..Len(latest_snapshot) :
                    latest_snapshot[i] = into_timeless(c).val.pos}
                   = {latest_index(c).val + 1}
    /\ ~latest_mut.panic
    /\ latest_mut.ret = latest_snapshot

\* C19 witness: three orderings of two or more entries each, the latest one
\* not in arena order and holding an entry made by a batched replace or an
\* insert next to entries of the first version.
C19_Witness ==
    /\ Len(snapshots) = 3
    /\ \A t \in 1..3 : Len(snapshots[t]) >= 2
    /\ \E i, j \in 1..Len(latest_snapshot) :
           i < j /\ latest_snapshot[i] > latest_snapshot[j]
    /\ \E i \in 1..Len(latest_snapshot) :
           mem[latest_snapshot[i] + 1].birth = 2
    /\ Len(latest_mut.ret) >= 2

\* C20: in every reachable state every arena entry a has a birth that is at
\* most the current pseudotime, a occurs in the ordering of version
\* birth(a) and in no ordering of an earlier version, and births do not
\* decrease along arena positions.
C20_BirthAgreesWithTheChain ==
    /\ \A a \in 0..(Len(mem) - 1) :
           /\ mem[a + 1].birth <= pseudotime
           /\ a \in Range(snapshots[mem[a + 1].birth + 1])
           /\ \A t \in 1..mem[a + 1].birth : a \notin Range(snapshots[t])
    /\ \A a, b \in 0..(Len(mem) - 1) :
           a <= b => mem[a + 1].birth <= mem[b + 1].birth

====
